---------------------------- MODULE Spec2Model ----------------------------
(***************************************************************************)
(* A model of pyjidelnicek/menu.py: the allergen dictionary, BaseStrava    *)
(* and the Strava5 parser (fetch_xml_menu, parse_day, whole_menu,          *)
(* closest_day_menu, date_menu).                                           *)
(*                                                                         *)
(* A Python str is a sequence of one-character strings, None is a value no *)
(* str equals, a dict is a function on its keys, an exception is a record  *)
(* of its class and its message.  Library calls the code makes             *)
(* (re.findall, str.strip, str.lower, datetime.strptime, ET.fromstring,    *)
(* Element.find/findall/get, requests.get) are operators that compute what *)
(* CPython 3.11 computes.                                                  *)
(***************************************************************************)
EXTENDS Integers, Sequences, FiniteSets, TLC

VARIABLES
    cafeteria_id,   \* self.cafeteria_id, set by __init__
    call,           \* the call being made on the parser: its name and arguments
    outcome,        \* what that call returned or raised
    log             \* the library calls that call made, in order

vars == <<cafeteria_id, call, outcome, log>>

(***************************************************************************)
(* Bounds of the model.                                                    *)
(***************************************************************************)
MaxStrLen == 5      \* longest allergen text handed to extract_allergen_codes
MaxMeals == 2       \* most jidlo children of a den handed to parse_day
MaxDays == 2        \* most children of the root element of a document

\* None: a value no str equals (a str holds one-character strings only)
None == <<"None">>

(***************************************************************************)
(* Characters.                                                             *)
(***************************************************************************)
Digits == <<"0", "1", "2", "3", "4", "5", "6", "7", "8", "9">>
LowerAlpha == <<"a", "b", "c", "d", "e", "f", "g", "h", "i", "j", "k", "l", "m",
                "n", "o", "p", "q", "r", "s", "t", "u", "v", "w", "x", "y", "z">>
UpperAlpha == <<"A", "B", "C", "D", "E", "F", "G", "H", "I", "J", "K", "L", "M",
                "N", "O", "P", "Q", "R", "S", "T", "U", "V", "W", "X", "Y", "Z">>

Range(f) == {f[i] : i \in DOMAIN f}

\* \d of the re module
IsDigit(c) == c \in Range(Digits)
\* [a-zA-Z]
IsAsciiLetter(c) == c \in Range(LowerAlpha) \cup Range(UpperAlpha)
\* \w of the re module: what \b is defined by
IsWordChar(c) == IsDigit(c) \/ IsAsciiLetter(c) \/ c = "_"
\* str.isspace
IsSpace(c) == c \in {" ", "\t", "\n"}

DigitVal(c) == CHOOSE n \in 0..9 : Digits[n + 1] = c

\* str.lower on one character
LowerChar(c) ==
    IF c \in Range(UpperAlpha)
    THEN LowerAlpha[CHOOSE i \in DOMAIN UpperAlpha : UpperAlpha[i] = c]
    ELSE c

\* str.lower
Lower(s) == [i \in DOMAIN s |-> LowerChar(s[i])]

\* str.strip
RECURSIVE LStrip(_)
LStrip(s) == IF s # <<>> /\ IsSpace(Head(s)) THEN LStrip(Tail(s)) ELSE s
RECURSIVE RStrip(_)
RStrip(s) ==
    IF s # <<>> /\ IsSpace(s[Len(s)]) THEN RStrip(SubSeq(s, 1, Len(s) - 1)) ELSE s
Strip(s) == RStrip(LStrip(s))

(***************************************************************************)
(* Outcomes of a call: a returned value or a raised exception.  An         *)
(* exception is its class, the fixed head of its message, the text the     *)
(* message quotes (arg) and, for a wrapping message, the wrapped exception *)
(* (cause, a sequence of at most one).                                     *)
(***************************************************************************)
Ok(v) == [ok |-> TRUE, val |-> v]
Raise(e) == [ok |-> FALSE, exc |-> e]
Exc(type, head, arg) == [type |-> type, head |-> head, arg |-> arg, cause |-> <<>>]

(***************************************************************************)
(* BaseStrava.extract_allergen_codes                                       *)
(***************************************************************************)
\* \b before position i (1-based) of s
WordBoundary(s, i) ==
    LET before == i > 1 /\ i - 1 <= Len(s) /\ IsWordChar(s[i - 1])
        after == i >= 1 /\ i <= Len(s) /\ IsWordChar(s[i])
    IN before # after

TwoDigitsAt(s, i) == i + 1 <= Len(s) /\ IsDigit(s[i]) /\ IsDigit(s[i + 1])

\* MatchLenAt with the \b of the pattern forgotten
MatchLenAt_NoBoundary(s, i) ==
    IF TwoDigitsAt(s, i)
    THEN IF i + 2 <= Len(s) /\ IsAsciiLetter(s[i + 2]) THEN 3 ELSE 2
    ELSE 0

\* The length of the match of \b\d{2}[a-zA-Z]?|\b\d{2} at position i, 0 for none.
\* The first alternative is tried first and its optional letter is greedy.
MatchLenAt(s, i) ==
    IF WordBoundary(s, i) /\ TwoDigitsAt(s, i)
    THEN IF i + 2 <= Len(s) /\ IsAsciiLetter(s[i + 2]) THEN 3 ELSE 2
    ELSE IF WordBoundary(s, i) /\ TwoDigitsAt(s, i) THEN 2 ELSE 0

\* re.findall: scan from the left, a match resumes the scan at its end
RECURSIVE FindAllFrom(_, _)
FindAllFrom(s, i) ==
    IF i > Len(s) THEN <<>>
    ELSE LET n == MatchLenAt(s, i)
         IN IF n > 0
            THEN <<SubSeq(s, i, i + n - 1)>> \o FindAllFrom(s, i + n)
            ELSE FindAllFrom(s, i + 1)

extract_allergen_codes(allergen_str) ==
    IF allergen_str = None THEN <<>>
    ELSE IF Len(allergen_str) = 0 THEN <<>>
    ELSE FindAllFrom(allergen_str, 1)

(***************************************************************************)
(* The allergen dictionary and BaseStrava.allergen_code_to_name.  The      *)
(* bundled allergens.json holds the codes of the regulatory list; these    *)
(* are the entries the tests name.                                         *)
(***************************************************************************)
ALLERGENS ==
    (<<"0", "1", "a">> :> <<"p", "s", "e", "n", "i", "c", "e">>)
    @@ (<<"0", "3">> :> <<"v", "e", "j", "c", "e">>)
    @@ (<<"0", "7">> :> <<"m", "l", "e", "k", "o">>)
    @@ (<<"0", "9">> :> <<"c", "e", "l", "e", "r">>)

MsgUnknownCode == "Unknown allergen code: "

allergen_code_to_name(code) ==
    IF code \in DOMAIN ALLERGENS THEN Ok(ALLERGENS[code])
    ELSE Raise(Exc("ValueError", MsgUnknownCode, code))

(***************************************************************************)
(* datetime.strptime(data_string, "%d-%m-%Y") as _strptime computes it:    *)
(* the format becomes the regular expression                               *)
(*   (?P<d>3[0-1]|[1-2]\d|0[1-9]|[1-9]| [1-9])-(?P<m>1[0-2]|0[1-9]|[1-9])  *)
(*   -(?P<Y>\d\d\d\d)                                                      *)
(* matched at the start of the string; text left after the match is an     *)
(* error; the date is then built from the three numbers.                   *)
(***************************************************************************)
CharAt(s, i) == IF i \in 1..Len(s) THEN s[i] ELSE ""

NonZeroDigit(c) == IsDigit(c) /\ c # "0"

\* The lengths the alternatives of %d match at position i, in the order tried
DayLens(s, i) ==
    LET c1 == CharAt(s, i)
        c2 == CharAt(s, i + 1)
    IN (IF c1 = "3" /\ c2 \in {"0", "1"} THEN <<2>> ELSE <<>>)
       \o (IF c1 \in {"1", "2"} /\ IsDigit(c2) THEN <<2>> ELSE <<>>)
       \o (IF c1 = "0" /\ NonZeroDigit(c2) THEN <<2>> ELSE <<>>)
       \o (IF NonZeroDigit(c1) THEN <<1>> ELSE <<>>)
       \o (IF c1 = " " /\ NonZeroDigit(c2) THEN <<2>> ELSE <<>>)

\* The lengths the alternatives of %m match at position i, in the order tried
MonthLens(s, i) ==
    LET c1 == CharAt(s, i)
        c2 == CharAt(s, i + 1)
    IN (IF c1 = "1" /\ c2 \in {"0", "1", "2"} THEN <<2>> ELSE <<>>)
       \o (IF c1 = "0" /\ NonZeroDigit(c2) THEN <<2>> ELSE <<>>)
       \o (IF NonZeroDigit(c1) THEN <<1>> ELSE <<>>)

\* \d\d\d\d at position i
YearAt(s, i) == \A k \in 0..3 : IsDigit(CharAt(s, i + k))

\* int() of a run of digits, a leading space allowed
RECURSIVE IntOf(_)
IntOf(s) ==
    IF s = <<>> THEN 0
    ELSE IF Head(s) = " " THEN IntOf(Tail(s))
    ELSE IntOf(SubSeq(s, 1, Len(s) - 1)) * 10 + DigitVal(s[Len(s)])

\* The ways the whole expression matches at the start of s, as <<length of the
\* day, length of the month>>, in the order a backtracking matcher finds them
FormatMatches(s) ==
    LET dl == DayLens(s, 1)
        Rest(d) ==
            IF CharAt(s, 1 + d) # "-" THEN <<>>
            ELSE LET ml == MonthLens(s, d + 2)
                     ok(k) == CharAt(s, d + 2 + ml[k]) = "-" /\ YearAt(s, d + 3 + ml[k])
                 IN [k \in 1..Len(SelectSeq([j \in DOMAIN ml |-> j], ok))
                        |-> <<d, ml[SelectSeq([j \in DOMAIN ml |-> j], ok)[k]]>>]
        RECURSIVE Collect(_)
        Collect(k) == IF k > Len(dl) THEN <<>> ELSE Rest(dl[k]) \o Collect(k + 1)
    IN Collect(1)

IsLeap(y) == y % 4 = 0 /\ (y % 100 # 0 \/ y % 400 = 0)

DaysInMonth(y, m) ==
    IF m = 2 THEN (IF IsLeap(y) THEN 29 ELSE 28)
    ELSE IF m \in {4, 6, 9, 11} THEN 30 ELSE 31

MsgTimeData == "time data %r does not match format '%d-%m-%Y'"
MsgUnconverted == "unconverted data remains: "
MsgYearRange == "year %i is out of range"
MsgDayRange == "day is out of range for month"

strptime(data_string) ==
    LET found == FormatMatches(data_string) IN
    IF found = <<>>
    THEN Raise(Exc("ValueError", MsgTimeData, data_string))
    ELSE
        LET d == found[1][1]
            m == found[1][2]
            end == d + m + 6
            day == IntOf(SubSeq(data_string, 1, d))
            month == IntOf(SubSeq(data_string, d + 2, d + 1 + m))
            year == IntOf(SubSeq(data_string, d + m + 3, end))
        IN IF Len(data_string) # end
           THEN Raise(Exc("ValueError", MsgUnconverted,
                          SubSeq(data_string, end + 1, Len(data_string))))
           ELSE IF year < 1
           THEN Raise(Exc("ValueError", MsgYearRange, <<>>))
           ELSE IF day > DaysInMonth(year, month)
           THEN Raise(Exc("ValueError", MsgDayRange, <<>>))
           ELSE Ok([year |-> year, month |-> month, day |-> day])

(***************************************************************************)
(* XML.  A text is a sequence of tokens: a start tag with its attributes,  *)
(* an end tag, an empty-element tag, white space, other character data.    *)
(* An element is its tag, its attributes (a function on the names present) *)
(* and its child elements.                                                 *)
(***************************************************************************)
Open(tag, attrib) == [k |-> "open", tag |-> tag, attrib |-> attrib]
Close(tag) == [k |-> "close", tag |-> tag, attrib |-> <<>>]
EmptyTag(tag, attrib) == [k |-> "empty", tag |-> tag, attrib |-> attrib]
WS == [k |-> "ws", tag |-> "", attrib |-> <<>>]
Text == [k |-> "text", tag |-> "", attrib |-> <<>>]

Element(tag, attrib, children) ==
    [tag |-> tag, attrib |-> attrib, children |-> children]

NoAttrib == <<>>

MsgNoElement == "no element found"
MsgSyntax == "syntax error"
MsgJunkAfter == "junk after document element"
MsgMismatched == "mismatched tag"

ParseError(head) == Raise(Exc("ParseError", head, <<>>))

\* The parser's run over the tokens from i on: stack holds the elements still
\* open, innermost last; root holds the closed document element, if any
RECURSIVE ParseFrom(_, _, _, _)
ParseFrom(toks, i, stack, root) ==
    IF i > Len(toks)
    THEN IF stack = <<>> /\ root # <<>> THEN Ok(root[1]) ELSE ParseError(MsgNoElement)
    ELSE
        LET tok == toks[i]
            top == stack[Len(stack)]
            below == SubSeq(stack, 1, Len(stack) - 1)
            \* a finished element joins its parent, or is the document element
            Finish(el, open) ==
                IF open = <<>>
                THEN ParseFrom(toks, i + 1, <<>>, <<el>>)
                ELSE LET parent == open[Len(open)]
                     IN ParseFrom(toks, i + 1,
                            [open EXCEPT ![Len(open)] =
                                [parent EXCEPT !.children = Append(@, el)]],
                            root)
        IN CASE tok.k = "ws" -> ParseFrom(toks, i + 1, stack, root)
             [] tok.k = "text" ->
                    IF stack # <<>> THEN ParseFrom(toks, i + 1, stack, root)
                    ELSE IF root = <<>> THEN ParseError(MsgSyntax)
                    ELSE ParseError(MsgJunkAfter)
             [] tok.k = "open" ->
                    IF stack = <<>> /\ root # <<>> THEN ParseError(MsgJunkAfter)
                    ELSE ParseFrom(toks, i + 1,
                            Append(stack, Element(tok.tag, tok.attrib, <<>>)), root)
             [] tok.k = "empty" ->
                    IF stack = <<>> /\ root # <<>> THEN ParseError(MsgJunkAfter)
                    ELSE Finish(Element(tok.tag, tok.attrib, <<>>), stack)
             [] tok.k = "close" ->
                    IF stack = <<>> THEN ParseError(MsgSyntax)
                    ELSE IF top.tag # tok.tag THEN ParseError(MsgMismatched)
                    ELSE Finish(top, below)

\* ET.fromstring
fromstring(text) == ParseFrom(text, 1, <<>>, <<>>)

\* Element.get(key, default)
Get(element, key, default) ==
    IF key \in DOMAIN element.attrib THEN element.attrib[key] ELSE default

\* Element.findall(tag): the children with that tag, in document order
FindAll(element, tag) == SelectSeq(element.children, LAMBDA c : c.tag = tag)

\* What Element.find returns is given as a sequence: <<>> for None, and
\* <<element>> for an element
NoElement == <<>>

\* A find that gives the last child with the tag, where the code gives the first
Find_Last(element, tag) ==
    LET all == FindAll(element, tag)
    IN IF all = <<>> THEN NoElement ELSE <<all[Len(all)]>>

\* Element.find(tag): the first such child, or None
Find(element, tag) ==
    LET all == FindAll(element, tag) IN IF all = <<>> THEN NoElement ELSE <<all[1]>>

\* A find by attribute that trims the attribute before it compares
FindByAttrib_Stripped(element, tag, key, value) ==
    LET all == SelectSeq(element.children,
                   LAMBDA c : c.tag = tag /\ key \in DOMAIN c.attrib
                                /\ Strip(c.attrib[key]) = value)
    IN IF all = <<>> THEN NoElement ELSE <<all[1]>>

\* A find by attribute that gives the last child that matches
FindByAttrib_Last(element, tag, key, value) ==
    LET all == SelectSeq(element.children,
                   LAMBDA c : c.tag = tag /\ key \in DOMAIN c.attrib
                                /\ c.attrib[key] = value)
    IN IF all = <<>> THEN NoElement ELSE <<all[Len(all)]>>

\* Element.find("tag[@key='value']"): the first child with that tag whose
\* attribute key is present and equal to value, or None
FindByAttrib(element, tag, key, value) ==
    LET all == SelectSeq(element.children,
                   LAMBDA c : c.tag = tag /\ key \in DOMAIN c.attrib
                                /\ c.attrib[key] = value)
    IN IF all = <<>> THEN NoElement ELSE <<all[1]>>

(***************************************************************************)
(* Strava5.parse_day                                                       *)
(***************************************************************************)
MsgNoneStrip == "'NoneType' object has no attribute 'strip'"

\* A loop that builds a list from the outcomes of its iterations, in order:
\* the first iteration that raises ends it, and the exception propagates
Gather(outcomes) ==
    IF \A i \in DOMAIN outcomes : outcomes[i].ok
    THEN Ok([i \in DOMAIN outcomes |-> outcomes[i].val])
    ELSE outcomes[CHOOSE i \in DOMAIN outcomes :
                    ~outcomes[i].ok /\ \A j \in 1..(i - 1) : outcomes[j].ok]

\* lines 123-125: [self.allergen_code_to_name(code) for code in allergens]
LookupAll(codes) == Gather([i \in DOMAIN codes |-> allergen_code_to_name(codes[i])])

\* lines 119-127: the allergens of one meal
MealAllergens(meal, lookup_allergens) ==
    LET raw_allergens == Get(meal, "alergeny", <<>>) IN
    IF Len(raw_allergens) > 0
    THEN IF lookup_allergens
         THEN LookupAll(extract_allergen_codes(raw_allergens))
         ELSE Ok(extract_allergen_codes(raw_allergens))
    ELSE Ok(<<>>)

\* lines 119-134: one iteration of the loop over the meals
ParseMeal(meal, lookup_allergens) ==
    LET allergens == MealAllergens(meal, lookup_allergens) IN
    IF ~allergens.ok THEN allergens
    ELSE Ok([name |-> Lower(Strip(Get(meal, "nazev", <<>>))),
             type |-> Lower(Strip(Get(meal, "druh", <<>>))),
             allergens |-> allergens.val])

\* the loop of lines 118-134
ParseMeals(meals, lookup_allergens) ==
    Gather([i \in DOMAIN meals |-> ParseMeal(meals[i], lookup_allergens)])

parse_day(day_element, lookup_allergens) ==
    LET datum == Get(day_element, "datum", None) IN
    IF datum = None
    THEN Raise(Exc("AttributeError", MsgNoneStrip, <<>>))
    ELSE LET meals == ParseMeals(FindAll(day_element, "jidlo"), lookup_allergens)
         IN IF ~meals.ok THEN meals
            ELSE Ok([date |-> Strip(datum), meals |-> meals.val])

(***************************************************************************)
(* Strava5.whole_menu, closest_day_menu, date_menu.  Each is given as its  *)
(* run: what it returns or raises (out) and the library calls it makes, in *)
(* order (log).                                                            *)
(***************************************************************************)
MsgParseFailed == "Failed to parse XML: "
MsgNoDen == "No 'den' element found in the XML menu."
MsgInvalidDate == "Invalid date format. Expected DD-MM-YYYY, got: "

\* raise ValueError(f"<head>{e}")
Wrap(head, e) == [type |-> "ValueError", head |-> head, arg |-> <<>>, cause |-> <<e>>]

Run(out, calls) == [out |-> out, log |-> calls]

\* A loop over the day elements from the last to the first
ParseDays_Reversed(dens, lookup_allergens) ==
    Gather([i \in DOMAIN dens |-> parse_day(dens[Len(dens) + 1 - i], lookup_allergens)])

\* the loop of lines 155-157
ParseDays(dens, lookup_allergens) ==
    Gather([i \in DOMAIN dens |-> parse_day(dens[i], lookup_allergens)])

whole_menu_run(id, xml_menu, lookup_allergens) ==
    LET root == fromstring(xml_menu) IN
    IF ~root.ok
    THEN Run(Raise(Wrap(MsgParseFailed, root.exc)), <<"fromstring">>)
    ELSE LET days == ParseDays(FindAll(root.val, "den"), lookup_allergens)
         IN Run(IF ~days.ok THEN days
                ELSE Ok([cafeteria_id |-> id, days |-> days.val]),
                <<"fromstring", "findall">>)

whole_menu(id, xml_menu, lookup_allergens) ==
    whole_menu_run(id, xml_menu, lookup_allergens).out

closest_day_menu_run(xml_menu, lookup_allergens) ==
    LET root == fromstring(xml_menu) IN
    IF ~root.ok
    THEN Run(Raise(Wrap(MsgParseFailed, root.exc)), <<"fromstring">>)
    ELSE LET day_element == Find(root.val, "den")
         IN IF day_element = NoElement
            THEN Run(Raise(Exc("ValueError", MsgNoDen, <<>>)), <<"fromstring", "find">>)
            ELSE Run(parse_day(day_element[1], lookup_allergens),
                     <<"fromstring", "find", "parse_day">>)

closest_day_menu(xml_menu, lookup_allergens) ==
    closest_day_menu_run(xml_menu, lookup_allergens).out

TimeData == <<"t", "i", "m", "e", " ", "d", "a", "t", "a">>

IsInfix(p, s) == \E i \in 1..(Len(s) - Len(p) + 1) : SubSeq(s, i, i + Len(p) - 1) = p

\* "time data" in str(e), for the exceptions the handler of line 212 can see
ContainsTimeData(e) == e.head = MsgTimeData \/ IsInfix(TimeData, e.arg)

\* the handler of lines 212-217
OnValueError(e, target_date) ==
    IF ContainsTimeData(e)
    THEN Raise(Exc("ValueError", MsgInvalidDate, target_date))
    ELSE Raise(e)

\* the empty dict date_menu returns for a date that is not in the document
EmptyDict == [key \in {} |-> key]

date_menu_run(xml_menu, target_date, lookup_allergens) ==
    LET parsed == strptime(target_date) IN
    IF ~parsed.ok
    THEN Run(OnValueError(parsed.exc, target_date), <<"strptime">>)
    ELSE
        LET root == fromstring(xml_menu) IN
        IF ~root.ok
        THEN Run(Raise(Wrap(MsgParseFailed, root.exc)), <<"strptime", "fromstring">>)
        ELSE
            LET day_element == FindByAttrib(root.val, "den", "datum", target_date) IN
            IF day_element = NoElement
            THEN Run(Ok(EmptyDict), <<"strptime", "fromstring", "find">>)
            ELSE LET day == parse_day(day_element[1], lookup_allergens)
                 IN Run(IF ~day.ok /\ day.exc.type = "ValueError"
                        THEN OnValueError(day.exc, target_date)
                        ELSE day,
                        <<"strptime", "fromstring", "find", "parse_day">>)

date_menu(xml_menu, target_date, lookup_allergens) ==
    date_menu_run(xml_menu, target_date, lookup_allergens).out

(***************************************************************************)
(* Strava5.url and fetch_xml_menu.  reply is what requests.get does: it    *)
(* raises, or returns a response with a status code and a text.            *)
(***************************************************************************)
url_template == "https://www.strava.cz/strava5/Jidelnicky/XML?zarizeni={}"

url(id) == <<url_template, id>>

MsgFetchFailed == "Failed to fetch or parse XML menu: "
MsgEmptyResponse == "Received empty response from the server."
MsgUnexpectedRoot == "Unexpected root element: "
MsgHttpError == "%s Error: %s for url: %s"
MsgConnection == "Connection refused"

\* A status check that lets the server errors through
IsErrorStatus_ClientOnly(status_code) == status_code >= 400 /\ status_code < 500

\* Response.raise_for_status raises for the statuses 400 to 599
IsErrorStatus(status_code) == status_code >= 400 /\ status_code < 600

\* str.strip on a text: the white space at both ends goes
RECURSIVE StripText(_)
StripText(text) ==
    IF text # <<>> /\ Head(text).k = "ws" THEN StripText(Tail(text))
    ELSE IF text # <<>> /\ text[Len(text)].k = "ws"
    THEN StripText(SubSeq(text, 1, Len(text) - 1))
    ELSE text

\* not xml_text or len(xml_text.strip()) == 0
IsBlank(xml_text) == Len(xml_text) = 0 \/ Len(StripText(xml_text)) = 0

fetch_xml_menu_run(reply) ==
    IF ~reply.ok
    THEN Run(Raise(Wrap(MsgFetchFailed, reply.exc)), <<"get">>)
    ELSE
        LET response == reply.val
            xml_text == response.text
            root == fromstring(xml_text)
        IN IF IsErrorStatus(response.status_code)
           THEN Run(Raise(Wrap(MsgFetchFailed, Exc("HTTPError", MsgHttpError, <<>>))),
                    <<"get", "raise_for_status">>)
           ELSE IF IsBlank(xml_text)
           THEN Run(Raise(Wrap(MsgFetchFailed, Exc("ValueError", MsgEmptyResponse, <<>>))),
                    <<"get", "raise_for_status">>)
           ELSE IF ~root.ok
           THEN Run(Raise(Wrap(MsgFetchFailed, root.exc)),
                    <<"get", "raise_for_status", "fromstring">>)
           ELSE IF root.val.tag # "jidelnicky"
           THEN Run(Raise(Wrap(MsgFetchFailed,
                               Exc("ValueError", MsgUnexpectedRoot, <<root.val.tag>>))),
                    <<"get", "raise_for_status", "fromstring">>)
           ELSE Run(Ok(xml_text), <<"get", "raise_for_status", "fromstring">>)

fetch_xml_menu(reply) == fetch_xml_menu_run(reply).out

(***************************************************************************)
(* Inputs.                                                                 *)
(***************************************************************************)
RECURSIVE StringsUpTo(_, _)
StringsUpTo(chars, n) ==
    IF n = 0 THEN {<<>>}
    ELSE LET shorter == StringsUpTo(chars, n - 1)
         IN shorter \cup {Append(s, c) : s \in shorter, c \in chars}

AllergenChars == {"0", "7", "a", "_", ",", " "}
AllergenTexts == StringsUpTo(AllergenChars, MaxStrLen)

CafeteriaIds == {1, 4857}

\* Attribute values of jidlo elements
AlergenyTexts ==
    {<<>>,
     <<" ">>,
     <<"0", "7">>,
     <<"0", "1", "a", "-", "P", ",", "0", "7", " ", "-", "M">>,
     <<"0", "9", ",", "9", "9">>,
     <<"9", "9", "a">>}
Nazev == <<" ", "S", "o", "u", "p", " ">>
Druh == <<"O", "b", "e", "d", " ", "1", " ">>

\* The children a den handed to parse_day may have: jidlo elements with and
\* without the alergeny attribute, and an element that is no jidlo
MealElements ==
    {Element("jidlo", ("nazev" :> Nazev) @@ ("druh" :> Druh) @@ ("alergeny" :> a), <<>>) :
        a \in AlergenyTexts}
    \cup {Element("jidlo", NoAttrib, <<>>),
          Element("poznamka", "alergeny" :> <<"9", "9">>, <<>>)}

RECURSIVE SeqsUpTo(_, _)
SeqsUpTo(S, n) ==
    IF n = 0 THEN {<<>>}
    ELSE LET shorter == SeqsUpTo(S, n - 1)
         IN shorter \cup {Append(s, x) : s \in shorter, x \in S}

\* datum attributes: a date, a date with a leading space in its day, a date
\* followed by white space, and no attribute at all
Date1 == <<"2", "4", "-", "0", "6", "-", "2", "0", "2", "5">>
Date2 == <<" ", "1", "-", "0", "1", "-", "2", "0", "2", "5">>
Date1Padded == <<"2", "4", "-", "0", "6", "-", "2", "0", "2", "5", " ">>
DatumAttribs ==
    {NoAttrib} \cup {"datum" :> d : d \in {Date1, Date2, Date1Padded}}

DayElements ==
    {Element("den", a, m) : a \in DatumAttribs, m \in SeqsUpTo(MealElements, MaxMeals)}

\* The children of the root of a document: day elements with no meal, with a meal
\* whose codes are all in the dictionary, with a meal without allergens and a
\* meal with a code that is not in the dictionary; and an element that is no den
GoodMeal ==
    Element("jidlo", ("nazev" :> Nazev) @@ ("druh" :> Druh)
                     @@ ("alergeny" :> <<"0", "1", "a", "-", "P", ",",
                                         "0", "7", " ", "-", "M">>), <<>>)
BadMeal ==
    Element("jidlo", ("nazev" :> Nazev) @@ ("druh" :> Druh)
                     @@ ("alergeny" :> <<"0", "9", ",", "9", "9">>), <<>>)
PlainMeal == Element("jidlo", NoAttrib, <<>>)

RootChildren ==
    {Element("den", a, m) : a \in DatumAttribs,
                            m \in {<<>>, <<GoodMeal>>, <<PlainMeal, BadMeal>>}}
    \cup {Element("info", NoAttrib, <<>>)}

Documents ==
    {Element(tag, NoAttrib, c) : tag \in {"jidelnicky", "invalid"},
                                 c \in SeqsUpTo(RootChildren, MaxDays)}

\* The text of an element: an empty-element tag when it has no children
RECURSIVE Render(_)
Render(el) ==
    LET RECURSIVE Each(_)
        Each(cs) == IF cs = <<>> THEN <<>> ELSE Render(Head(cs)) \o Each(Tail(cs))
    IN IF el.children = <<>> THEN <<EmptyTag(el.tag, el.attrib)>>
       ELSE <<Open(el.tag, el.attrib)>> \o Each(el.children) \o <<Close(el.tag)>>

\* Texts: every document, every document cut short before its last token, and
\* the empty text, white space, text that is no markup, a document between
\* white space and a document followed by a second element
SampleText == Render(Element("jidelnicky", NoAttrib,
                  <<Element("den", "datum" :> Date1, <<GoodMeal>>)>>))
XmlTexts ==
    {Render(d) : d \in Documents}
    \cup {SubSeq(Render(d), 1, Len(Render(d)) - 1) : d \in Documents}
    \cup {<<>>, <<WS>>, <<Text>>, <<WS>> \o SampleText \o <<WS>>,
          SampleText \o <<EmptyTag("den", NoAttrib)>>}

\* target_date arguments: a day, a month and a year part joined by "-", and
\* some that are no such thing
DayParts == {<<"2", "4">>,
     <<"1">>,
     <<" ", "1">>,
     <<"0", "0">>,
     <<"3", "1">>,
     <<"2", "9">>,
     <<"3", "0">>,
     <<"3", "2">>,
     <<"2", "a">>,
     <<>>}
MonthParts == {<<"0", "6">>,
     <<"1">>,
     <<"0", "2">>,
     <<"0", "4">>,
     <<"1", "3">>,
     <<"0", "0">>,
     <<" ", "1">>}
YearParts == {<<"2", "0", "2", "5">>,
     <<"2", "0", "2", "4">>,
     <<"1", "9", "0", "0">>,
     <<"0", "0", "0", "0">>,
     <<"2", "0", "2", "5", "5">>,
     <<"2", "0", "2">>,
     <<"2", "0", "2", "5", " ">>}
TargetDates ==
    {d \o <<"-">> \o m \o <<"-">> \o y : d \in DayParts, m \in MonthParts, y \in YearParts}
    \cup {<<"2", "0", "2", "5", "-", "0", "6", "-", "2", "0">>,
     <<"2", "4", ".", "0", "6", ".", "2", "0", "2", "5">>,
     <<"0", "1", "-", "0", "1", "-", "1", "9", "7", "0">>,
     Date1 \o TimeData,
     <<" ", "1", "-", "0", "1", "-", "2", "0", "2", "5">>}

\* The dates every text is queried for, and the texts every date is queried in
CoreDates == {<<"2", "4", "-", "0", "6", "-", "2", "0", "2", "5">>,
     <<" ", "1", "-", "0", "1", "-", "2", "0", "2", "5">>,
     <<"0", "1", "-", "0", "1", "-", "1", "9", "7", "0">>,
     <<"2", "0", "2", "5", "-", "0", "6", "-", "2", "0">>,
     <<"2", "4", "-", "0", "6", "-", "2", "0", "2", "5", " ">>,
     <<"3", "1", "-", "0", "6", "-", "2", "0", "2", "5">>}
CoreTexts == {<<>>, <<Text>>, SampleText, SubSeq(SampleText, 1, Len(SampleText) - 1)}
DateMenuInputs == (CoreTexts \X TargetDates) \cup (XmlTexts \X CoreDates)

\* What requests.get may do
Replies ==
    {Raise(Exc("ConnectionError", MsgConnection, <<>>))}
    \cup {Ok([status_code |-> c, text |-> t]) : c \in {200, 304, 404, 500}, t \in XmlTexts}

(***************************************************************************)
(* The state machine.  The library is synchronous and single-threaded: a   *)
(* parser is constructed, and then the caller makes one call at a time,    *)
(* each running to completion before the caller takes its result.          *)
(***************************************************************************)
Idle == [op |-> "idle"]

Init ==
    /\ cafeteria_id \in CafeteriaIds
    /\ call = Idle
    /\ outcome = Ok(None)
    /\ log = <<>>

ExtractAllergenCodes ==
    /\ call = Idle
    /\ \E s \in AllergenTexts \cup {None} :
        /\ call' = [op |-> "extract_allergen_codes", allergen_str |-> s]
        /\ outcome' = Ok(extract_allergen_codes(s))
        /\ log' = IF s = None \/ s = <<>> THEN <<>> ELSE <<"re.findall">>
    /\ UNCHANGED cafeteria_id

FetchXmlMenu ==
    /\ call = Idle
    /\ \E reply \in Replies :
        LET run == fetch_xml_menu_run(reply) IN
        /\ call' = [op |-> "fetch_xml_menu", url |-> url(cafeteria_id), reply |-> reply]
        /\ outcome' = run.out
        /\ log' = run.log
    /\ UNCHANGED cafeteria_id

ParseDay ==
    /\ call = Idle
    /\ \E day_element \in DayElements, lookup_allergens \in BOOLEAN :
        /\ call' = [op |-> "parse_day", day_element |-> day_element,
                    lookup_allergens |-> lookup_allergens]
        /\ outcome' = parse_day(day_element, lookup_allergens)
        /\ log' = <<>>
    /\ UNCHANGED cafeteria_id

WholeMenu ==
    /\ call = Idle
    /\ \E xml_menu \in XmlTexts, lookup_allergens \in BOOLEAN :
        LET run == whole_menu_run(cafeteria_id, xml_menu, lookup_allergens) IN
        /\ call' = [op |-> "whole_menu", xml_menu |-> xml_menu,
                    lookup_allergens |-> lookup_allergens]
        /\ outcome' = run.out
        /\ log' = run.log
    /\ UNCHANGED cafeteria_id

ClosestDayMenu ==
    /\ call = Idle
    /\ \E xml_menu \in XmlTexts, lookup_allergens \in BOOLEAN :
        LET run == closest_day_menu_run(xml_menu, lookup_allergens) IN
        /\ call' = [op |-> "closest_day_menu", xml_menu |-> xml_menu,
                    lookup_allergens |-> lookup_allergens]
        /\ outcome' = run.out
        /\ log' = run.log
    /\ UNCHANGED cafeteria_id

DateMenu ==
    /\ call = Idle
    /\ \E input \in DateMenuInputs, lookup_allergens \in BOOLEAN :
        LET run == date_menu_run(input[1], input[2], lookup_allergens) IN
        /\ call' = [op |-> "date_menu", xml_menu |-> input[1], target_date |-> input[2],
                    lookup_allergens |-> lookup_allergens]
        /\ outcome' = run.out
        /\ log' = run.log
    /\ UNCHANGED cafeteria_id

\* The caller has the result; the parser keeps nothing of the call.
Return ==
    /\ call # Idle
    /\ call' = Idle
    /\ outcome' = Ok(None)
    /\ log' = <<>>
    /\ UNCHANGED cafeteria_id

Next ==
    \/ ExtractAllergenCodes
    \/ FetchXmlMenu
    \/ ParseDay
    \/ WholeMenu
    \/ ClosestDayMenu
    \/ DateMenu
    \/ Return

Spec == Init /\ [][Next]_vars

(***************************************************************************)
(* Properties.                                                             *)
(***************************************************************************)
IsCodeShape(c) ==
    /\ Len(c) \in {2, 3}
    /\ IsDigit(c[1]) /\ IsDigit(c[2])
    /\ Len(c) = 3 => IsAsciiLetter(c[3])

\* The positions of s where a maximal run of word characters begins with two digits
CodeStarts(s) ==
    {i \in 1..Len(s) : (i = 1 \/ ~IsWordChar(s[i - 1])) /\ TwoDigitsAt(s, i)}

CodeAt(s, i) ==
    IF i + 2 <= Len(s) /\ IsAsciiLetter(s[i + 2]) THEN SubSeq(s, i, i + 2)
    ELSE SubSeq(s, i, i + 1)

\* The elements of a set of positions, in increasing order
Ascending(S) ==
    [k \in 1..Cardinality(S) |-> CHOOSE i \in S : Cardinality({j \in S : j < i}) = k - 1]

\* The codes that begin a run of word characters, left to right
LeadingCodes(s) ==
    LET at == Ascending(CodeStarts(s)) IN [k \in DOMAIN at |-> CodeAt(s, at[k])]

\* The codes that are a whole run of word characters, left to right
TokenCodes(s) ==
    LET whole == {i \in CodeStarts(s) :
                    LET e == i + Len(CodeAt(s, i))
                    IN e > Len(s) \/ ~IsWordChar(s[e])}
        at == Ascending(whole)
    IN [k \in DOMAIN at |-> CodeAt(s, at[k])]

HasDigitPair(s) == \E i \in 1..Len(s) : TwoDigitsAt(s, i)

(***************************************************************************)
(* The five error kinds, as the code tells them apart: every one is a      *)
(* ValueError, and the head of its message says which.                     *)
(***************************************************************************)
Kind(e) ==
    IF e.type # "ValueError" THEN "unclassified"
    ELSE CASE e.head = MsgFetchFailed -> "FetchError"
           [] e.head = MsgParseFailed -> "MalformedDocument"
           [] e.head = MsgNoDen -> "NoDayFound"
           [] e.head = MsgInvalidDate -> "InvalidDateFormat"
           [] e.head = MsgUnknownCode -> "UnknownAllergenCode"
           [] OTHER -> "unclassified"

Failed(kind) == ~outcome.ok /\ Kind(outcome.exc) = kind

ExtractDone == call.op = "extract_allergen_codes"

\* C9 as stated: extract_allergen_codes returns exactly the occurrences of "two
\* digits, optionally one letter" that stand as a token, delimited by token
\* boundaries on both sides.
C9_AsStated ==
    ExtractDone /\ call.allergen_str # None
        => outcome = Ok(TokenCodes(call.allergen_str))

\* C9, amended: extract_allergen_codes never fails and returns, left to right,
\* one code for every run of word characters that begins with two digits: those
\* two digits and the character after them when it is an ASCII letter, whatever
\* follows (a boundary is required before a code, none after it).  None, the
\* empty string, whitespace and text without a digit pair give the empty
\* sequence, and every element is two digits optionally followed by a letter.
C9_LeadingBoundaryOnly ==
    ExtractDone =>
        LET s == call.allergen_str IN
        /\ outcome.ok
        /\ s = None => outcome.val = <<>>
        /\ s # None =>
            /\ outcome.val = LeadingCodes(s)
            /\ (\A i \in DOMAIN s : IsSpace(s[i])) \/ ~HasDigitPair(s)
                    => outcome.val = <<>>
        /\ \A k \in DOMAIN outcome.val : IsCodeShape(outcome.val[k])

\* C9's case: a code is returned that runs on into more word characters, so
\* that no token of the text is a code
C9_Witness ==
    /\ ExtractDone
    /\ call.allergen_str # None
    /\ Len(outcome.val) = 1
    /\ TokenCodes(call.allergen_str) = <<>>
    /\ Len(call.allergen_str) = MaxStrLen

(***************************************************************************)
(* date_menu                                                               *)
(***************************************************************************)
DateMenuDone == call.op = "date_menu"

\* DD-MM-YYYY exactly: two digits, "-", two digits, "-", four digits
IsDDMMYYYY(s) ==
    /\ Len(s) = 10
    /\ \A i \in {1, 2, 4, 5, 7, 8, 9, 10} : IsDigit(s[i])
    /\ s[3] = "-" /\ s[6] = "-"

\* C1 as stated: a target_date that fails validation makes date_menu fail with
\* InvalidDateFormat, whatever the text is, and the text is never parsed.
C1_AsStated ==
    DateMenuDone /\ ~strptime(call.target_date).ok
        => /\ Failed("InvalidDateFormat")
           /\ \A i \in DOMAIN log : log[i] # "fromstring"

\* C2 as stated: a target_date that is not DD-MM-YYYY exactly makes date_menu
\* fail with InvalidDateFormat.
C2_AsStated ==
    DateMenuDone /\ ~IsDDMMYYYY(call.target_date) => Failed("InvalidDateFormat")

\* The day elements of the parsed text of the call, in document order
CallDens == FindAll(fromstring(call.xml_menu).val, "den")

\* The places of the day elements whose datum is the string d
DatedAt(dens, d) ==
    {i \in DOMAIN dens : "datum" \in DOMAIN dens[i].attrib /\ dens[i].attrib["datum"] = d}

Least(S) == CHOOSE i \in S : \A j \in S : i <= j

\* C3: for a target_date that passes validation and a text that parses,
\* date_menu returns the empty dict exactly when no den has a datum equal to
\* target_date as a string, and otherwise gives what parse_day gives for the
\* first such den; the empty dict is no parsed Day, not even one without meals.
C3_SentinelIffNoSuchDay ==
    /\ DateMenuDone /\ strptime(call.target_date).ok /\ fromstring(call.xml_menu).ok
        => LET at == DatedAt(CallDens, call.target_date) IN
           /\ outcome = Ok(EmptyDict) <=> at = {}
           /\ at # {} => outcome = parse_day(CallDens[Least(at)], call.lookup_allergens)
    /\ call.op \in {"parse_day", "closest_day_menu"} /\ outcome.ok
        => outcome.val # EmptyDict /\ DOMAIN outcome.val # DOMAIN EmptyDict

\* C3's case: two dens carry the date asked for; the first of them, a Day
\* without meals, is returned
C3_Witness ==
    /\ DateMenuDone
    /\ outcome.ok /\ outcome.val # EmptyDict
    /\ outcome.val.meals = <<>>
    /\ fromstring(call.xml_menu).ok
    /\ Cardinality(DatedAt(CallDens, call.target_date)) = 2
    /\ Len(CallDens[2].children) > 0

(***************************************************************************)
(* Failures                                                                *)
(***************************************************************************)
ErrorKinds ==
    {"FetchError", "MalformedDocument", "NoDayFound", "InvalidDateFormat",
     "UnknownAllergenCode"}

\* C4 as stated: every failure of a call is one of the five error kinds, and a
\* failed call returns nothing.
C4_AsStated ==
    ~outcome.ok => Kind(outcome.exc) \in ErrorKinds /\ "val" \notin DOMAIN outcome

(***************************************************************************)
(* fetch_xml_menu                                                          *)
(***************************************************************************)
FetchDone == call.op = "fetch_xml_menu"

\* C5: fetch_xml_menu returns the body of the response, unchanged, exactly
\* when get returned a response whose status is no error status, whose body is
\* not empty or white space only and parses to a root tagged jidelnicky; in
\* every other case it fails with FetchError, whose message carries the cause.
C5_FetchReturnsOrFetchError ==
    FetchDone =>
        LET reply == call.reply
            good == /\ reply.ok
                    /\ reply.val.status_code \notin 400..599
                    /\ \E i \in DOMAIN reply.val.text : reply.val.text[i] # WS
                    /\ fromstring(reply.val.text).ok
                    /\ fromstring(reply.val.text).val.tag = "jidelnicky"
        IN /\ good <=> outcome.ok
           /\ outcome.ok => outcome.val = reply.val.text
           /\ ~outcome.ok =>
                /\ Failed("FetchError")
                /\ Len(outcome.exc.cause) = 1
                /\ ~reply.ok => outcome.exc.cause[1] = reply.exc
                /\ reply.ok /\ reply.val.status_code \in 400..599
                        => outcome.exc.cause[1].type = "HTTPError"

\* C5's case: a response with an error-free status and a document of two
\* days, returned as it came
C5_Witness ==
    /\ FetchDone
    /\ outcome.ok
    /\ outcome.val = call.reply.val.text
    /\ Len(FindAll(fromstring(outcome.val).val, "den")) = 2

(***************************************************************************)
(* parse_day                                                               *)
(***************************************************************************)
ParseDayDone == call.op = "parse_day"

\* The codes of a meal, and their names
CodesOf(meal) == extract_allergen_codes(Get(meal, "alergeny", <<>>))
NamesOf(meal) == [k \in DOMAIN CodesOf(meal) |-> ALLERGENS[CodesOf(meal)[k]]]

\* C6 as stated: parse_day fails with UnknownAllergenCode exactly when
\* lookup_allergens is true and a meal of the day has a code that is not in
\* the dictionary; otherwise every meal has its codes (flag false) or their
\* names (flag true), in order, and none for an absent or empty alergeny.
C6_AsStated ==
    ParseDayDone =>
        LET meals == FindAll(call.day_element, "jidlo")
            unknown == \E i \in DOMAIN meals : \E k \in DOMAIN CodesOf(meals[i]) :
                            CodesOf(meals[i])[k] \notin DOMAIN ALLERGENS
        IN /\ Failed("UnknownAllergenCode") <=> call.lookup_allergens /\ unknown
           /\ ~(call.lookup_allergens /\ unknown) =>
                /\ outcome.ok
                /\ Len(outcome.val.meals) = Len(meals)
                /\ \A i \in DOMAIN meals :
                     /\ outcome.val.meals[i].allergens =
                            IF call.lookup_allergens THEN NamesOf(meals[i])
                            ELSE CodesOf(meals[i])
                     /\ Get(meals[i], "alergeny", <<>>) = <<>>
                            => outcome.val.meals[i].allergens = <<>>

(***************************************************************************)
(* whole_menu                                                              *)
(***************************************************************************)
WholeMenuDone == call.op = "whole_menu"

\* C7 as stated: what whole_menu returns on a text that parses is the id of
\* the parser and one Day for each den, in document order, each with the datum
\* of its den verbatim.
C7_AsStated ==
    WholeMenuDone /\ outcome.ok =>
        /\ outcome.val.cafeteria_id = cafeteria_id
        /\ Len(outcome.val.days) = Len(CallDens)
        /\ \A i \in DOMAIN CallDens :
            /\ Ok(outcome.val.days[i]) = parse_day(CallDens[i], call.lookup_allergens)
            /\ outcome.val.days[i].date = CallDens[i].attrib["datum"]

\* The places of the day elements parse_day fails on
FailingAt(dens, lookup_allergens) ==
    {i \in DOMAIN dens : ~parse_day(dens[i], lookup_allergens).ok}

\* C7, amended: on a text that parses and whose day elements all parse,
\* whole_menu returns the id of the parser and one Day for each den, in
\* document order, each with the datum of its den stripped of the white space
\* around it (not verbatim); when parse_day fails on a den (an unknown code
\* under lookup_allergens, a den without datum), whole_menu fails as parse_day
\* fails on the first such den, and returns no days.
C7_DaysInOrderDatesStripped ==
    WholeMenuDone /\ fromstring(call.xml_menu).ok =>
        LET failing == FailingAt(CallDens, call.lookup_allergens) IN
        /\ failing = {} =>
            /\ outcome.ok
            /\ outcome.val.cafeteria_id = cafeteria_id
            /\ Len(outcome.val.days) = Len(CallDens)
            /\ \A i \in DOMAIN CallDens :
                /\ Ok(outcome.val.days[i]) = parse_day(CallDens[i], call.lookup_allergens)
                /\ outcome.val.days[i].date = Strip(CallDens[i].attrib["datum"])
        /\ failing # {} =>
            outcome = parse_day(CallDens[Least(failing)], call.lookup_allergens)

\* C7's case: a menu of two days is returned, the first from a den whose datum
\* ends in white space, the second with another date
C7_Witness ==
    /\ WholeMenuDone
    /\ outcome.ok
    /\ Len(outcome.val.days) = 2
    /\ CallDens[1].attrib["datum"] # outcome.val.days[1].date
    /\ outcome.val.days[1].date # outcome.val.days[2].date
    /\ Len(fromstring(call.xml_menu).val.children) = 2

(***************************************************************************)
(* closest_day_menu                                                        *)
(***************************************************************************)
ClosestDone == call.op = "closest_day_menu"

\* C8: closest_day_menu compares no dates: on a text that parses it gives what
\* parse_day gives for the first den in document order, whatever the dates of
\* the dens are, and fails with NoDayFound when there is no den; on a text that
\* does not parse it fails with MalformedDocument.
C8_FirstDenOrNoDayFound ==
    ClosestDone =>
        /\ ~fromstring(call.xml_menu).ok => Failed("MalformedDocument")
        /\ fromstring(call.xml_menu).ok =>
            /\ CallDens = <<>> => Failed("NoDayFound")
            /\ CallDens # <<>> =>
                outcome = parse_day(CallDens[1], call.lookup_allergens)

\* C8's case: the first den is returned although a later den has the earlier date
C8_Witness ==
    /\ ClosestDone
    /\ outcome.ok
    /\ Len(CallDens) = 2
    /\ CallDens[1].attrib = ("datum" :> Date1)
    /\ CallDens[2].attrib = ("datum" :> Date2)
    /\ outcome.val.date = Date1

(***************************************************************************)
(* The three queries on one text                                           *)
(***************************************************************************)
\* What whole_menu gives for the arguments of the call that was made
Whole == whole_menu(cafeteria_id, call.xml_menu, call.lookup_allergens)

\* C10: when whole_menu succeeds on a text with the days D, closest_day_menu
\* with the same arguments returns the first of D, or fails with NoDayFound when
\* D is empty, and date_menu with a target_date that passes validation returns
\* the empty dict when no den has that datum and otherwise D[i] for the first
\* den i that has it: never a Day that is not in D.
C10_QueriesAgree ==
    /\ ClosestDone /\ Whole.ok =>
        IF Whole.val.days = <<>> THEN Failed("NoDayFound")
        ELSE outcome = Ok(Whole.val.days[1])
    /\ DateMenuDone /\ strptime(call.target_date).ok /\ Whole.ok =>
        LET at == DatedAt(CallDens, call.target_date) IN
        IF at = {} THEN outcome = Ok(EmptyDict)
        ELSE outcome = Ok(Whole.val.days[Least(at)])

\* C10's case: whole_menu gives two different days for the date asked for, and
\* date_menu returns the first
C10_Witness ==
    /\ DateMenuDone
    /\ Whole.ok
    /\ Len(Whole.val.days) = 2
    /\ DatedAt(CallDens, call.target_date) = {1, 2}
    /\ Whole.val.days[1] # Whole.val.days[2]
    /\ outcome = Ok(Whole.val.days[1])

=============================================================================
